---------------------------- MODULE Spec2Model ----------------------------
(***************************************************************************)
(* A model of cpprast's software rasterizer core: the packed RGBA Color    *)
(* (graphics/Color.hpp), the axis-aligned bounding box used for clipping   *)
(* (math/AABB.hpp) and Rasterizer::clear / Rasterizer::drawSprite          *)
(* (graphics/src/Rasterizer.cpp).                                          *)
(*                                                                         *)
(* Two specifications share the module's variables:                        *)
(*   Spec       the rasterizer: a destination image, the rasterizer state  *)
(*              (color target, clip rectangle) and the calls made on it;   *)
(*   SpecColor  the Color value type: two operands are drawn in the        *)
(*              initial state and one member function is applied to them.  *)
(*                                                                         *)
(* TLC's integers are 32-bit signed, so a uint32_t is kept as two 16-bit   *)
(* limbs [hi, lo]; a uint8_t is a number in 0..255 and every              *)
(* static_cast<uint8_t> is taken modulo 256.                               *)
(***************************************************************************)
EXTENDS Integers, Sequences, FiniteSets, TLC

(***************************************************************************)
(* Bounds of the model.                                                    *)
(***************************************************************************)
\* Number of pseudo-random colors added to the hand-picked edge colors.
MaxSamples == 10

(***************************************************************************)
(* math/Math.hpp                                                           *)
(***************************************************************************)
min(a, b) == IF a < b THEN a ELSE b

max(a, b) == IF a > b THEN a ELSE b

(***************************************************************************)
(* Fixed-width integers.                                                   *)
(***************************************************************************)
\* static_cast<uint8_t>( n ) of an int n: n modulo 2^8.
U8(n) == n % 256

\* A uint32_t as two 16-bit limbs.
W32(hi, lo) == [hi |-> hi, lo |-> lo]

\* The uint32_t whose bytes, lowest first, are b0, b1, b2, b3:
\* b0 + 2^8 b1 + 2^16 b2 + 2^24 b3.
W32OfBytes(b0, b1, b2, b3) == W32(b2 + 256 * b3, b0 + 256 * b1)

\* Byte k (0 = lowest) of a uint32_t.
ByteOf(w, k) ==
    CASE k = 0 -> w.lo % 256
      [] k = 1 -> w.lo \div 256
      [] k = 2 -> w.hi % 256
      [] k = 3 -> w.hi \div 256

RECURSIVE BitAnd16(_, _, _)
\* Bitwise and of two n-bit numbers.
BitAnd16(a, b, n) ==
    IF n = 0 THEN 0
    ELSE ((a % 2) * (b % 2)) + 2 * BitAnd16(a \div 2, b \div 2, n - 1)

\* The & of two uint32_t.
And32(w, m) == W32(BitAnd16(w.hi, m.hi, 16), BitAnd16(w.lo, m.lo, 16))

\* The >> of a uint32_t by s bits, 0 <= s < 32.
Shr32(w, s) ==
    IF s >= 16
    THEN W32(0, w.hi \div (2 ^ (s - 16)))
    ELSE W32(w.hi \div (2 ^ s),
             (w.lo \div (2 ^ s)) + (w.hi % (2 ^ s)) * (2 ^ (16 - s)))

\* static_cast<uint8_t>( w ) of a uint32_t w: its lowest byte.
U8OfW32(w) == w.lo % 256

(***************************************************************************)
(* graphics/Color.hpp: union Color { uint32_t rgba; struct { uint8_t r, g, *)
(* b, a; } channels; }.  A Color is kept as its four bytes in memory       *)
(* order; the rgba member is read and written over the same bytes.         *)
(***************************************************************************)
RedMask   == W32(0, 255)
GreenMask == W32(0, 65280)
BlueMask  == W32(255, 0)
AlphaMask == W32(65280, 0)

RedShift   == 0
GreenShift == 8
BlueShift  == 16
AlphaShift == 24

\* Color( uint8_t r, uint8_t g, uint8_t b, uint8_t a ): channels { r, g, b, a }.
MakeColor(r, g, b, a) == [r |-> r, g |-> g, b |-> b, a |-> a]

\* Color(): channels { 0, 0, 0, 255 }.
DefaultColor == MakeColor(0, 0, 0, 255)

\* Reading the rgba member of the union: the four bytes r, g, b, a as one
\* uint32_t, first byte lowest (the byte order of the targets the library
\* builds for, and the one its 0xAABBGGRR documentation states).
Rgba(c) == W32(c.b + 256 * c.a, c.r + 256 * c.g)

\* ColorFromRGBA with the channels laid over the word highest byte first.
ColorFromRGBAHighFirst(w) ==
    [r |-> w.hi \div 256, g |-> w.hi % 256, b |-> w.lo \div 256, a |-> w.lo % 256]

\* Color( uint32_t rgba ): rgba { rgba }; the channels are then the bytes of
\* the stored word in memory order.
ColorFromRGBA(w) ==
    [r |-> w.lo % 256, g |-> w.lo \div 256, b |-> w.hi % 256, a |-> w.hi \div 256]

\* operator==: rgba == rhs.rgba.
ColorEq(c1, c2) == Rgba(c1) = Rgba(c2)

\* The <=> of two uint8_t after integer promotion: -1 less, 0 equal, 1 greater.
ThreeWay(x, y) == IF x < y THEN -1 ELSE IF x > y THEN 1 ELSE 0

\* operator<=> comparing the packed words, as operator== does.
ColorCompareByRgba(c1, c2) ==
    IF ThreeWay(Rgba(c1).hi, Rgba(c2).hi) # 0
    THEN ThreeWay(Rgba(c1).hi, Rgba(c2).hi)
    ELSE ThreeWay(Rgba(c1).lo, Rgba(c2).lo)

\* operator<=>: red, then green, then blue, then alpha.
ColorCompare(c1, c2) ==
    IF ThreeWay(c1.r, c2.r) # 0 THEN ThreeWay(c1.r, c2.r)
    ELSE IF ThreeWay(c1.g, c2.g) # 0 THEN ThreeWay(c1.g, c2.g)
    ELSE IF ThreeWay(c1.b, c2.b) # 0 THEN ThreeWay(c1.b, c2.b)
    ELSE ThreeWay(c1.a, c2.a)

\* operator+ without the cap: the sum wraps in the cast to uint8_t.
ColorPlusWrap(c1, c2) ==
    MakeColor(U8(c1.r + c2.r), U8(c1.g + c2.g), U8(c1.b + c2.b), U8(c1.a + c2.a))

\* operator+: the channels are promoted to int, added and capped at 255.
ColorPlus(c1, c2) ==
    MakeColor(U8(min(c1.r + c2.r, 255)), U8(min(c1.g + c2.g, 255)),
              U8(min(c1.b + c2.b, 255)), U8(min(c1.a + c2.a, 255)))

\* operator-: the channels are promoted to int, subtracted and floored at 0.
ColorMinus(c1, c2) ==
    MakeColor(U8(max(c1.r - c2.r, 0)), U8(max(c1.g - c2.g, 0)),
              U8(max(c1.b - c2.b, 0)), U8(max(c1.a - c2.a, 0)))

\* operator* normalized by a shift, that is by 256, instead of by 255.
ColorTimesShift(c1, c2) ==
    MakeColor(U8((c1.r * c2.r) \div 256), U8((c1.g * c2.g) \div 256),
              U8((c1.b * c2.b) \div 256), U8((c1.a * c2.a) \div 256))

\* operator*( const Color& ): int product, truncating division by 255.
ColorTimes(c1, c2) ==
    MakeColor(U8((c1.r * c2.r) \div 255), U8((c1.g * c2.g) \div 255),
              U8((c1.b * c2.b) \div 255), U8((c1.a * c2.a) \div 255))

\* fromHex: each channel is ( color & Mask ) >> Shift, cast to uint8_t.
FromHex(w) ==
    MakeColor(U8OfW32(Shr32(And32(w, RedMask), RedShift)),
              U8OfW32(Shr32(And32(w, GreenMask), GreenShift)),
              U8OfW32(Shr32(And32(w, BlueMask), BlueShift)),
              U8OfW32(Shr32(And32(w, AlphaMask), AlphaShift)))

(***************************************************************************)
(* Color::fromHSV and Color::fromFloats.  A hue is kept in units of        *)
(* 2^-16 degree, half the spacing of the floats between 256 and 512, and   *)
(* S, V and the channel values in units of 1/256.  Every float operation   *)
(* of the code is exact on the inputs the model draws (HsvInputs below),   *)
(* except H += 360.0f, which rounds to the nearest float, ties to even.    *)
(***************************************************************************)
HueScale == 65536
UnitScale == 256

Degrees(d) == d * HueScale

Abs(x) == IF x < 0 THEN 0 - x ELSE x

\* fmodf( x, y ) for y > 0: exact, with the sign of x.
Fmodf(x, y) == IF x >= 0 THEN x % y ELSE 0 - ((0 - x) % y)

\* math::clamp( v, minVal, maxVal ) = min( max( v, minVal ), maxVal ).
mathClamp(v, minVal, maxVal) == min(max(v, minVal), maxVal)

\* The float nearest to a hue v in [0, 512) degrees: floats are 2^-15 degree
\* apart from 256 degrees on, two units, and one unit or less apart below.
RoundHue(v) ==
    IF v < Degrees(256) THEN v
    ELSE LET q == v \div 2
         IN  IF v % 2 = 0 THEN v
             ELSE IF q % 2 = 0 THEN 2 * q ELSE 2 * (q + 1)

\* H = fmodf( H, 360.0f ); if ( H < 0 ) H += 360.0f;
NormalizeHue(H) ==
    LET h == Fmodf(H, Degrees(360))
    IN  IF h < 0 THEN RoundHue(h + Degrees(360)) ELSE h

\* fromFloats: static_cast<uint8_t>( math::clamp( r * 255.0f, 0.0f, 255.0f ) ).
FloatToByte(f) == U8(mathClamp(f * 255, 0, 255 * UnitScale) \div UnitScale)

fromFloats(r, g, b, a) ==
    MakeColor(FloatToByte(r), FloatToByte(g), FloatToByte(b), FloatToByte(a))

\* Color::fromHSV( H, S, V ).
fromHSV(H, S, V) ==
    LET h  == NormalizeHue(H)
        s  == mathClamp(S, 0, UnitScale)
        v  == mathClamp(V, 0, UnitScale)
        C  == (v * s) \div UnitScale
        m  == v - C
        H2 == h \div 60
        X  == (C * (HueScale - Abs(Fmodf(H2, 2 * HueScale) - HueScale))) \div HueScale
        n  == H2 \div HueScale
        rgb == CASE n = 0 -> <<C, X, 0>>
                 [] n = 1 -> <<X, C, 0>>
                 [] n = 2 -> <<0, C, X>>
                 [] n = 3 -> <<0, X, C>>
                 [] n = 4 -> <<X, 0, C>>
                 [] n = 5 -> <<C, 0, X>>
                 [] OTHER -> <<0, 0, 0>>
    IN  fromFloats(rgb[1] + m, rgb[2] + m, rgb[3] + m, UnitScale)

(***************************************************************************)
(* math/AABB.hpp.  A glm::vec2 is a record [x, y]; the coordinates of the  *)
(* model are whole numbers far below 2^24, which a float holds exactly.    *)
(***************************************************************************)
Vec2(x, y) == [x |-> x, y |-> y]

\* glm::min( a, b ) and glm::max( a, b ) of two vectors: component-wise.
GlmMin(a, b) == Vec2(min(a.x, b.x), min(a.y, b.y))

GlmMax(a, b) == Vec2(max(a.x, b.x), max(a.y, b.y))

\* AABB( const glm::vec2& a, const glm::vec2& b ):
\* min = glm::min( a, b ); max = glm::max( a, b ).
AABB2(a, b) == [min |-> GlmMin(a, b), max |-> GlmMax(a, b)]

\* fromMinMax: return { min, max }, which list-initializes the returned AABB
\* through the two-point constructor (AABB declares constructors, so it is
\* no aggregate).
fromMinMax(mn, mx) == AABB2(mn, mx)

\* std::numeric_limits<float>::max(), the default of AABB::min; lowest() is
\* its negative.  The model's stand-in is larger than every coordinate and
\* every sum of two coordinates it uses.
FLT_MAX == 1000000

\* An AABB whose members are zero-initialized.
ZeroAABB == [min |-> Vec2(0, 0), max |-> Vec2(0, 0)]

\* AABB() = default: min { max() }, max { lowest() }.
DefaultAABB ==
    [min |-> Vec2(FLT_MAX, FLT_MAX), max |-> Vec2(0 - FLT_MAX, 0 - FLT_MAX)]

\* struct Viewport { x, y, width, height }.
Viewport(x, y, width, height) == [x |-> x, y |-> y, width |-> width, height |-> height]

\* AABB( const Viewport& ) with half-open bounds: max { x + width, y + height }.
AABBOfViewportHalfOpen(viewport) ==
    [min |-> Vec2(viewport.x, viewport.y),
     max |-> Vec2(viewport.x + viewport.width, viewport.y + viewport.height)]

\* AABB( const Viewport& ): min { x, y }, max { x + width - 1, y + height - 1 }.
AABBOfViewport(viewport) ==
    [min |-> Vec2(viewport.x, viewport.y),
     max |-> Vec2(viewport.x + viewport.width - 1, viewport.y + viewport.height - 1)]

\* isValid with lessThanEqual.
isValidClosed(self) == self.min.x <= self.max.x /\ self.min.y <= self.max.y

\* isValid: glm::all( glm::lessThan( min, max ) ).
isValid(self) == self.min.x < self.max.x /\ self.min.y < self.max.y

\* center: ( min + max ) * 0.5f, kept in halves: the code only compares
\* centers, and halving two floats does not change their order.
center(self) == Vec2(self.min.x + self.max.x, self.min.y + self.max.y)

\* expand( p ): min = glm::min( min, p ), max = glm::max( max, p ).
expandPoint(self, p) == [min |-> GlmMin(self.min, p), max |-> GlmMax(self.max, p)]

\* expand( aabb ): min = glm::min( min, aabb.min ), max = glm::max( max, aabb.max ).
expandAABB(self, aabb) ==
    [min |-> GlmMin(self.min, aabb.min), max |-> GlmMax(self.max, aabb.max)]

\* clamp( aabb ): min = glm::max( min, aabb.min ), max = glm::min( max, aabb.max ),
\* assigned to the members.
clamp(self, aabb) ==
    [min |-> GlmMax(self.min, aabb.min), max |-> GlmMin(self.max, aabb.max)]

\* clamped: fromMinMax( glm::max( min, aabb.min ), glm::min( max, aabb.max ) ).
clamped(self, aabb) ==
    fromMinMax(GlmMax(self.min, aabb.min), GlmMin(self.max, aabb.max))

\* intersect: all( lessThanEqual( min, aabb.max ) ) && all( greaterThanEqual( max, aabb.min ) ).
intersect(self, aabb) ==
    /\ self.min.x <= aabb.max.x /\ self.min.y <= aabb.max.y
    /\ self.max.x >= aabb.min.x /\ self.max.y >= aabb.min.y

\* contains: all( greaterThanEqual( p, min ) ) && all( lessThanEqual( p, max ) ).
contains(self, p) ==
    /\ p.x >= self.min.x /\ p.y >= self.min.y
    /\ p.x <= self.max.x /\ p.y <= self.max.y

\* glm::clamp( x, minVal, maxVal ) = min( max( x, minVal ), maxVal ), per component.
GlmClamp(p, minVal, maxVal) == GlmMin(GlmMax(p, minVal), maxVal)

\* closestPoint with the bounds passed to glm::clamp in the other order.
closestPointSwapped(self, p) == GlmClamp(p, self.max, self.min)

\* closestPoint: glm::clamp( p, min, max ).
closestPoint(self, p) == GlmClamp(p, self.min, self.max)

\* overlap( aabb ): the std::optional is a sequence of no or one vector.
overlap(self, aabb) ==
    LET ov == Vec2(min(self.max.x, aabb.max.x) - max(self.min.x, aabb.min.x),
                   min(self.max.y, aabb.max.y) - max(self.min.y, aabb.min.y))
    IN  IF ov.x > 0 /\ ov.y > 0
        THEN IF ov.x < ov.y
             THEN << Vec2(IF center(self).x < center(aabb).x
                          THEN self.max.x - aabb.min.x
                          ELSE self.min.x - aabb.max.x, 0) >>
             ELSE << Vec2(0, IF center(self).y < center(aabb).y
                             THEN self.max.y - aabb.min.y
                             ELSE self.min.y - aabb.max.y) >>
        ELSE << >>

(***************************************************************************)
(* Parts of the repository the rasterizer calls and whose source is not    *)
(* among the files modelled: Rect, AABB::fromRect, Image, Sprite and       *)
(* BlendMode.  They follow the design document.                            *)
(***************************************************************************)
\* RectUI { left, top, width, height }.
Rect(left, top, width, height) ==
    [left |-> left, top |-> top, width |-> width, height |-> height]

\* AABB::fromRect: inclusive bounds, max = origin + size - 1.
fromRect(rect) ==
    [min |-> Vec2(rect.left, rect.top),
     max |-> Vec2(rect.left + rect.width - 1, rect.top + rect.height - 1)]

\* Image::getAABB of an image of the given width and height.
getAABB(width, height) ==
    [min |-> Vec2(0, 0), max |-> Vec2(width - 1, height - 1)]

\* Image::clear: every pixel of the buffer becomes color.
ImageClear(buf, color) == [i \in DOMAIN buf |-> color]

\* BlendMode::Blend, alpha-over: src * srcAlpha + dst * ( 1 - srcAlpha ) on
\* every channel, in 8-bit fixed point with truncation.
Over(s, d, sa) == (s * sa + d * (255 - sa)) \div 255

Blend(mode, sC, dC) ==
    CASE mode = "AlphaBlend" ->
           MakeColor(Over(sC.r, dC.r, sC.a), Over(sC.g, dC.g, sC.a),
                     Over(sC.b, dC.b, sC.a), Over(sC.a, dC.a, sC.a))
      [] mode = "Disable" -> sC

(***************************************************************************)
(* Bounds of the rasterizer model.                                         *)
(***************************************************************************)
\* Width and height of the destination image.
DstW == 3
DstH == 3
\* Largest sprite width and height; the source image is MaxSize x MaxSize.
MaxSize == 3
\* Largest width and height of a clip rectangle other than the default one.
MaxClipSize == 2

\* UINT_MAX, the width and height of the default clip rectangle.  It stands
\* for 4294967295, which TLC's 32-bit integers do not hold; the default
\* rectangle has its origin at 0, so that origin + size - 1 stays in range.
UINT_MAX == 2147483647

SrcW == MaxSize
SrcH == MaxSize

\* The pixels of the source image, row-major: the pixel at (u, v) is opaque
\* and tells its coordinates.
srcData == [i \in 0..(SrcW * SrcH - 1) |->
              MakeColor(40 * ((i % SrcW) + 1), 40 * ((i \div SrcW) + 1), 0, 255)]

\* A second source image, one column wider than the destination image and
\* WideH rows high; its pixels tell their coordinates too.
WideW == DstW + 1
WideH == 2
wideData == [i \in 0..(WideW * WideH - 1) |->
               MakeColor(30 * ((i % WideW) + 1), 100 * ((i \div WideW) + 1), 7, 255)]

\* Image::getWidth and Image::data of the source image a sprite refers to.
getWidth(image) == IF image = "wide" THEN WideW ELSE SrcW
data(image) == IF image = "wide" THEN wideData ELSE srcData

White == MakeColor(255, 255, 255, 255)
Green == MakeColor(0, 255, 0, 255)

\* The sprites drawn: a view of size.x by size.y pixels at uv inside the
\* source image, and one sprite without an image.
NullSprite ==
    [image |-> "null", uv |-> Vec2(0, 0), size |-> Vec2(1, 1),
     color |-> White, blendMode |-> "AlphaBlend"]

\* A sprite of every size up to MaxSize x MaxSize, each the far corner of
\* the source image: the largest has uv = (0, 0), the others a uv > 0.
Sprites ==
    { [image |-> "src", uv |-> Vec2(SrcW - w, SrcH - h), size |-> Vec2(w, h),
       color |-> White, blendMode |-> "AlphaBlend"] :
         w \in 1..MaxSize, h \in 1..MaxSize }

\* The clip rectangles assigned to state.clipRect.
DefaultClip == Rect(0, 0, UINT_MAX, UINT_MAX)

\* The default rectangle, and rectangles of one or of MaxClipSize columns
\* and rows that start at the image's origin, one pixel inside it, or past
\* the image, one column or row beyond its last.
ClipRects ==
    { Rect(l, t, w, h) : l \in {0, 1, DstW + 1}, t \in {0, 1, DstH + 1},
                         w \in {1, MaxClipSize}, h \in {1, MaxClipSize} }
    \cup {DefaultClip}

(***************************************************************************)
(* graphics/src/Rasterizer.cpp                                             *)
(***************************************************************************)
\* One pass of the pixel loops of drawSprite from (x, y) on.  c holds the
\* values fixed before the loops, m the memory so far: the destination
\* buffer, the source reads and the destination accesses made, in order, and
\* whether an access outside a buffer stopped the program.  An access src[s]
\* or dst[i] outside the buffer is undefined: it either stops the program
\* there (c.trap) or touches memory that is not the image's (a read of it
\* gives some color, Color() here) and the loops go on.
RECURSIVE DrawLoop(_, _, _, _)
DrawLoop(c, y, x, m) ==
    IF y > c.clipBottom THEN m
    ELSE IF x > c.clipRight THEN DrawLoop(c, y + 1, c.clipLeft, m)
    ELSE LET u   == c.uv.x + (x - c.clipLeft)
             v   == c.uv.y + (y - c.clipTop)
             s   == v * c.sW + u
             i   == y * c.dW + x
             sC  == ColorTimes(IF s \in DOMAIN c.src THEN c.src[s] ELSE DefaultColor,
                               c.color)
             acc == [x |-> x, y |-> y, u |-> u, v |-> v, i |-> i]
             mr  == [m EXCEPT !.reads = Append(m.reads, [u |-> u, v |-> v, s |-> s])]
         IN  IF s \notin DOMAIN c.src /\ c.trap
             THEN [mr EXCEPT !.trapped = TRUE]
             ELSE IF i \in DOMAIN m.buf
             THEN DrawLoop(c, y, x + 1,
                           [mr EXCEPT !.buf[i] = Blend(c.blendMode, sC, m.buf[i]),
                                      !.writes = Append(m.writes, acc)])
             ELSE IF c.trap
             THEN [mr EXCEPT !.trapped = TRUE]
             ELSE DrawLoop(c, y, x + 1,
                           [mr EXCEPT !.writes = Append(m.writes, acc)])

\* Rasterizer::State { colorTarget, clipRect }.
State(target, rect) == [colorTarget |-> target, clipRect |-> rect]

\* ClipBounds against the destination image only, the clip rectangle unused.
ClipBoundsUnclipped(rect, size, _x, _y) ==
    LET dstAABB == getAABB(DstW, DstH)
    IN  [left   |-> max(dstAABB.min.x, _x),
         top    |-> max(dstAABB.min.y, _y),
         right  |-> min(dstAABB.max.x, _x + size.x - 1),
         bottom |-> min(dstAABB.max.y, _y + size.y - 1)]

\* ClipBounds without the sprite's far edges: the right and bottom bounds
\* are those of the clamped destination AABB.
ClipBoundsNoFootprint(rect, size, _x, _y) ==
    LET clipAABB == fromRect(rect)
        dstAABB  == clamped(getAABB(DstW, DstH), clipAABB)
    IN  [left   |-> max(dstAABB.min.x, _x),
         top    |-> max(dstAABB.min.y, _y),
         right  |-> dstAABB.max.x,
         bottom |-> dstAABB.max.y]

\* The clipping bounds drawSprite computes: the destination image's AABB
\* clamped to the clip rectangle's, cast to int, and cut to the sprite's
\* footprint [_x, _x + size.x - 1] x [_y, _y + size.y - 1].
ClipBounds(rect, size, _x, _y) ==
    LET clipAABB == fromRect(rect)
        dstAABB  == clamped(getAABB(DstW, DstH), clipAABB)
    IN  [left   |-> max(dstAABB.min.x, _x),
         top    |-> max(dstAABB.min.y, _y),
         right  |-> min(dstAABB.max.x, _x + size.x - 1),
         bottom |-> min(dstAABB.max.y, _y + size.y - 1)]

\* The off-screen test with > in place of >=.
OffscreenStrict(b) == b.left > b.right \/ b.top > b.bottom

\* "Check if the sprite is completely off-screen."
Offscreen(b) == b.left >= b.right \/ b.top >= b.bottom

\* DrawClipped without the adjustment of the UV offset to the clipping.
DrawClippedNoUVShift(b, m0, sprite, _x, _y, trap) ==
    IF Offscreen(b) THEN m0
    ELSE DrawLoop([clipLeft |-> b.left, clipTop |-> b.top,
                   clipRight |-> b.right, clipBottom |-> b.bottom,
                   uv |-> sprite.uv,
                   color |-> sprite.color, blendMode |-> sprite.blendMode,
                   src |-> data(sprite.image), sW |-> getWidth(sprite.image),
                   dW |-> DstW, trap |-> trap],
                  b.top, b.left, m0)

\* DrawClipped with the UV offset moved against the clipping.
DrawClippedUVShiftReversed(b, m0, sprite, _x, _y, trap) ==
    IF Offscreen(b) THEN m0
    ELSE DrawLoop([clipLeft |-> b.left, clipTop |-> b.top,
                   clipRight |-> b.right, clipBottom |-> b.bottom,
                   uv |-> Vec2(sprite.uv.x - (b.left - _x),
                               sprite.uv.y - (b.top - _y)),
                   color |-> sprite.color, blendMode |-> sprite.blendMode,
                   src |-> data(sprite.image), sW |-> getWidth(sprite.image),
                   dW |-> DstW, trap |-> trap],
                  b.top, b.left, m0)

\* drawSprite from the clipping bounds b on: the off-screen test, the UV
\* adjustment and the pixel loops.
DrawClipped(b, m0, sprite, _x, _y, trap) ==
    IF Offscreen(b) THEN m0
    ELSE DrawLoop([clipLeft |-> b.left, clipTop |-> b.top,
                   clipRight |-> b.right, clipBottom |-> b.bottom,
                   uv |-> Vec2(sprite.uv.x + (b.left - _x),
                               sprite.uv.y + (b.top - _y)),
                   color |-> sprite.color, blendMode |-> sprite.blendMode,
                   src |-> data(sprite.image), sW |-> getWidth(sprite.image),
                   dW |-> DstW, trap |-> trap],
                  b.top, b.left, m0)

\* drawSprite testing the source image only, not the color target.
drawSpriteSourceOnly(state, buf, sprite, _x, _y, trap) ==
    IF sprite.image = "null"
    THEN [buf |-> buf, reads |-> <<>>, writes |-> <<>>, trapped |-> FALSE]
    ELSE DrawClipped(ClipBounds(state.clipRect, sprite.size, _x, _y),
                     [buf |-> buf, reads |-> <<>>, writes |-> <<>>, trapped |-> FALSE],
                     sprite, _x, _y, trap)

\* Rasterizer::drawSprite( sprite, _x, _y ) on the destination buffer buf:
\* the buffer after the call, and the accesses made.
drawSprite(state, buf, sprite, _x, _y, trap) ==
    IF sprite.image = "null" \/ state.colorTarget = "null"
    THEN [buf |-> buf, reads |-> <<>>, writes |-> <<>>, trapped |-> FALSE]
    ELSE DrawClipped(ClipBounds(state.clipRect, sprite.size, _x, _y),
                     [buf |-> buf, reads |-> <<>>, writes |-> <<>>, trapped |-> FALSE],
                     sprite, _x, _y, trap)

\* clear restricted to the pixels inside the clip rectangle.
clearClipped(state, buf, color) ==
    IF state.colorTarget = "null" THEN buf
    ELSE [i \in DOMAIN buf |->
            IF /\ state.clipRect.left <= i % DstW
               /\ i % DstW <= state.clipRect.left + state.clipRect.width - 1
               /\ state.clipRect.top <= i \div DstW
               /\ i \div DstW <= state.clipRect.top + state.clipRect.height - 1
            THEN color ELSE buf[i]]

\* Rasterizer::clear( color ): if ( Image* image = state.colorTarget )
\* image->clear( color ).
clear(state, buf, color) ==
    IF state.colorTarget # "null" THEN ImageClear(buf, color) ELSE buf

(***************************************************************************)
(* The inputs of the Color specification: byte quadruples.  The edge       *)
(* quadruples hold the extreme bytes and pairs that differ in one channel  *)
(* only; the others spread over the byte range.                            *)
(***************************************************************************)
EdgeBytes ==
    { <<0, 0, 0, 0>>, <<255, 255, 255, 255>>, <<0, 0, 0, 255>>,
      <<1, 0, 0, 0>>, <<0, 1, 0, 0>>, <<0, 0, 1, 0>>, <<0, 0, 0, 1>>,
      <<255, 0, 0, 128>>, <<128, 127, 254, 2>>, <<1, 2, 3, 4>> }

SpreadBytes ==
    { << (37 * i + 11) % 256, (101 * i + 200) % 256,
         (173 * i + 77) % 256, (59 * i + 128) % 256 >> : i \in 1..MaxSamples }

SampleBytes == EdgeBytes \cup SpreadBytes

VARIABLES
    colorTarget,  \* state.colorTarget: "null" or "image", the destination image
    clipRect,     \* state.clipRect
    dst,          \* the pixels of the destination image, row-major
    call,         \* the last call made on the rasterizer and its arguments
    prev,         \* the pixels before that call if it was a drawSprite, else dst
    writes,       \* the destination accesses of that call, in order
    crashed,      \* an access outside the buffer stopped the program
    earlier,      \* the drawSprite call before the last call, in the frame model
    win,            \* the Window objects: lifetime and data members
    sdlWindows,     \* the SDL windows allocated
    sdlRenderers,   \* the SDL renderers allocated
    imguiContexts,  \* the ImGui contexts allocated
    frameOpen,      \* the ImGui contexts with a frame begun and not rendered
    watches,        \* per Window object, the event watches registered with it
    nextId,         \* the handle the next SDL window, renderer and context get
    winOp,          \* the last operation on a Window, and its ImGui frame calls
    winFault,       \* undefined behaviour stopped the program
    colA,      \* the left operand, *this, as constructed
    colB,      \* the right operand
    colWord,   \* the uint32_t argument of Color( uint32_t ) and fromHex
    colOp,     \* the member function applied, "none" before
    colThis,   \* *this after the call
    colRes,    \* the Color the call returned
    colRgba,   \* the rgba member of the returned Color
    colOrd,    \* what operator<=> returned
    colEq,     \* what operator== returned
    hsv,       \* the arguments [H, S, V] of fromHSV
    box,       \* the AABB the member function is called on
    boxOp,     \* the last member function called on it, "none" before
    boxArg,    \* its argument: a point, a region or a viewport
    boxRes,    \* what it returned
    boxPrev,   \* the AABB before the call
    expPts,    \* the points the AABB was expanded with since Init
    expBoxes   \* the regions the AABB was expanded with since Init

colorVars == <<colA, colB, colWord, colOp, colThis, colRes, colRgba, colOrd, colEq>>

rasterVars == <<colorTarget, clipRect, dst, call, prev, writes, crashed, earlier>>

windowVars == <<win, sdlWindows, sdlRenderers, imguiContexts, frameOpen,
                watches, nextId, winOp, winFault>>

mathVars == <<hsv, box, boxOp, boxArg, boxRes, boxPrev, expPts, expBoxes>>

vars == <<colorTarget, clipRect, dst, call, prev, writes, crashed, earlier,
          win, sdlWindows, sdlRenderers, imguiContexts, frameOpen,
          watches, nextId, winOp, winFault,
          colA, colB, colWord, colOp, colThis, colRes, colRgba, colOrd, colEq,
          hsv, box, boxOp, boxArg, boxRes, boxPrev, expPts, expBoxes>>

\* The rasterizer and its destination image as constructed: no color
\* target, the default clip rectangle, every pixel Color().
NoCall ==
    [op |-> "none", sprite |-> NullSprite, x |-> 0, y |-> 0, color |-> DefaultColor]

\* No drawSprite call before the last call.
NoDraw == [op |-> "none"]

RasterIdle ==
    /\ colorTarget = "null"
    /\ clipRect = DefaultClip
    /\ dst = [i \in 0..(DstW * DstH - 1) |-> DefaultColor]
    /\ call = NoCall
    /\ prev = dst
    /\ writes = <<>>
    /\ crashed = FALSE
    /\ earlier = NoDraw

\* No Window object constructed, nothing allocated, no event watch.
Objects == {"a", "b"}

NoWindow ==
    [alive |-> FALSE, m_Window |-> 0, m_Renderer |-> 0, m_ImGuiContext |-> 0,
     m_Close |-> FALSE]

NoWinOp == [op |-> "none", self |-> "a", arg |-> 0, frames |-> <<>>]

WindowIdle ==
    /\ win = [o \in Objects |-> NoWindow]
    /\ sdlWindows = {}
    /\ sdlRenderers = {}
    /\ imguiContexts = {}
    /\ frameOpen = {}
    /\ watches = [o \in Objects |-> 0]
    /\ nextId = 1
    /\ winOp = NoWinOp
    /\ winFault = FALSE

ColorIdle ==
    /\ colA = DefaultColor
    /\ colB = DefaultColor
    /\ colWord = W32(0, 0)
    /\ colOp = "none"
    /\ colThis = DefaultColor
    /\ colRes = DefaultColor
    /\ colRgba = Rgba(DefaultColor)
    /\ colOrd = 0
    /\ colEq = TRUE

\* No fromHSV call and a default-constructed AABB.
HsvIdle == hsv = [H |-> 0, S |-> 0, V |-> 0]

BoxIdle ==
    /\ box = DefaultAABB
    /\ boxOp = "none"
    /\ boxArg = Vec2(0, 0)
    /\ boxRes = FALSE
    /\ boxPrev = DefaultAABB
    /\ expPts = {}
    /\ expBoxes = {}

InitColor ==
    /\ RasterIdle
    /\ WindowIdle
    /\ HsvIdle
    /\ BoxIdle
    /\ \E q \in SampleBytes : colA = MakeColor(q[1], q[2], q[3], q[4])
    /\ \E q \in SampleBytes :
          /\ colB = MakeColor(q[1], q[2], q[3], q[4])
          /\ colWord = W32OfBytes(q[4], q[1], q[3], q[2])
    /\ colOp = "none"
    /\ colThis = colA
    /\ colRes = DefaultColor
    /\ colRgba = Rgba(DefaultColor)
    /\ colOrd = 0
    /\ colEq = TRUE

\* One member function is applied to the operands of a behaviour.
ColorCall(op, this, res) ==
    /\ colOp = "none"
    /\ colOp' = op
    /\ colThis' = this
    /\ colRes' = res
    /\ colRgba' = Rgba(res)
    /\ UNCHANGED <<colA, colB, colWord>>
    /\ UNCHANGED <<rasterVars, mathVars, windowVars>>

OpPlus ==
    /\ ColorCall("+", colThis, ColorPlus(colThis, colB))
    /\ UNCHANGED <<colOrd, colEq>>

\* operator+=: *this = *this + rhs; return *this.
OpPlusAssign ==
    /\ ColorCall("+=", ColorPlus(colThis, colB), ColorPlus(colThis, colB))
    /\ UNCHANGED <<colOrd, colEq>>

OpMinus ==
    /\ ColorCall("-", colThis, ColorMinus(colThis, colB))
    /\ UNCHANGED <<colOrd, colEq>>

\* operator-=: *this = *this - rhs; return *this.
OpMinusAssign ==
    /\ ColorCall("-=", ColorMinus(colThis, colB), ColorMinus(colThis, colB))
    /\ UNCHANGED <<colOrd, colEq>>

OpTimes ==
    /\ ColorCall("*", colThis, ColorTimes(colThis, colB))
    /\ UNCHANGED <<colOrd, colEq>>

\* operator*=: *this = *this * rhs; return *this.
OpTimesAssign ==
    /\ ColorCall("*=", ColorTimes(colThis, colB), ColorTimes(colThis, colB))
    /\ UNCHANGED <<colOrd, colEq>>

\* a <=> b and a == b on the two operands.
OpCompare ==
    /\ ColorCall("<=>", colThis, colRes)
    /\ colOrd' = ColorCompare(colThis, colB)
    /\ colEq' = ColorEq(colThis, colB)

\* Color( r, g, b, a ) on the four bytes of colWord, lowest first.
OpConstruct ==
    /\ ColorCall("Color(r,g,b,a)", colThis,
                 MakeColor(ByteOf(colWord, 0), ByteOf(colWord, 1),
                           ByteOf(colWord, 2), ByteOf(colWord, 3)))
    /\ UNCHANGED <<colOrd, colEq>>

\* Color( colWord ).
OpFromRGBA ==
    /\ ColorCall("Color(rgba)", colThis, ColorFromRGBA(colWord))
    /\ UNCHANGED <<colOrd, colEq>>

\* Color::fromHex( colWord ).
OpFromHex ==
    /\ ColorCall("fromHex", colThis, FromHex(colWord))
    /\ UNCHANGED <<colOrd, colEq>>

NextColor ==
    \/ OpPlus
    \/ OpPlusAssign
    \/ OpMinus
    \/ OpMinusAssign
    \/ OpTimes
    \/ OpTimesAssign
    \/ OpCompare
    \/ OpConstruct
    \/ OpFromRGBA
    \/ OpFromHex

SpecColor == InitColor /\ [][NextColor]_vars

(***************************************************************************)
(* The fromHSV specification: the arguments are drawn in the initial       *)
(* state and fromHSV is called on them.  The hues are the multiples of 30  *)
(* degrees over MaxTurns turns below zero and above one turn, and the      *)
(* negative hue nearest to zero on the model's grid, -2^-16; those whose   *)
(* normalized hue divides by 60.0f exactly are kept.                       *)
(***************************************************************************)
MaxTurns == 2

Hues ==
    {Degrees(30 * k) : k \in (0 - 12 * MaxTurns)..(12 * MaxTurns + 11)} \cup {-1}

HsvLevels == {0 - UnitScale, 0, UnitScale \div 2, UnitScale, 2 * UnitScale}

HsvInputs ==
    {[H |-> h, S |-> s, V |-> v] :
        h \in {x \in Hues : NormalizeHue(x) % 60 = 0}, s \in HsvLevels, v \in HsvLevels}

InitHSV ==
    /\ RasterIdle
    /\ WindowIdle
    /\ ColorIdle
    /\ BoxIdle
    /\ hsv \in HsvInputs

OpFromHSV ==
    /\ ColorCall("fromHSV", colThis, fromHSV(hsv.H, hsv.S, hsv.V))
    /\ UNCHANGED <<colOrd, colEq>>

NextHSV == OpFromHSV

SpecHSV == InitHSV /\ [][NextHSV]_vars

(***************************************************************************)
(* The AABB specification.  An AABB with coordinates in 0..MaxCoord is     *)
(* drawn in the initial state: min and max are public members and clamp    *)
(* can leave min above max, so every pair of points is a value an AABB can *)
(* have, and so is the default-constructed one.  One member function is    *)
(* then called on it; expand is called up to MaxExpands times on the       *)
(* default-constructed AABB.                                               *)
(***************************************************************************)
MaxCoord == 2
MaxExpands == 2

Points == {Vec2(x, y) : x \in 0..MaxCoord, y \in 0..MaxCoord}

\* Points around and inside the AABBs of the model.
ProbePoints == {Vec2(x, y) : x \in (0 - 1)..(MaxCoord + 1), y \in (0 - 1)..(MaxCoord + 1)}

Regions == {[min |-> a, max |-> b] : a \in Points, b \in Points} \cup {DefaultAABB}

\* The AABBs passed as arguments: min <= max, and the default one.
ArgRegions ==
    {r \in Regions : r.min.x <= r.max.x /\ r.min.y <= r.max.y} \cup {DefaultAABB}

\* The AABBs passed to expand: from a point to the far corner, and the
\* default one.
ExpandRegions ==
    {fromMinMax(p, Vec2(MaxCoord, MaxCoord)) : p \in Points} \cup {DefaultAABB}

Viewports ==
    {Viewport(x, y, w, h) : x \in 0..(MaxCoord - 1), y \in 0..(MaxCoord - 1),
                            w \in 1..MaxCoord, h \in 1..MaxCoord}

InitAABB ==
    /\ RasterIdle
    /\ WindowIdle
    /\ ColorIdle
    /\ HsvIdle
    /\ box \in Regions
    /\ boxOp = "none"
    /\ boxArg = Vec2(0, 0)
    /\ boxRes = FALSE
    /\ boxPrev = box
    /\ expPts = {}
    /\ expBoxes = {}

\* One member function is called on box with argument arg: it leaves the
\* AABB as after and returns res.
BoxCall(op, arg, after, res) ==
    /\ boxOp = "none"
    /\ boxOp' = op
    /\ boxArg' = arg
    /\ boxPrev' = box
    /\ box' = after
    /\ boxRes' = res
    /\ UNCHANGED <<hsv, expPts, expBoxes>>
    /\ UNCHANGED <<rasterVars, colorVars, windowVars>>

Clamp(r) == BoxCall("clamp", r, clamp(box, r), clamp(box, r))

Clamped(r) == BoxCall("clamped", r, box, clamped(box, r))

IsValid == BoxCall("isValid", Vec2(0, 0), box, isValid(box))

Intersect(r) == BoxCall("intersect", r, box, intersect(box, r))

Overlap(r) == BoxCall("overlap", r, box, overlap(box, r))

Contains(p) == BoxCall("contains", p, box, contains(box, p))

ClosestPoint(p) == BoxCall("closestPoint", p, box, closestPoint(box, p))

\* AABB( viewport ) constructs the AABB anew.
ConstructViewport(viewport) ==
    /\ box = DefaultAABB
    /\ BoxCall("AABB(viewport)", viewport, AABBOfViewport(viewport),
                AABBOfViewport(viewport))

\* expand on the default-constructed AABB and on what expand made of it.
Expanding ==
    /\ \/ boxOp = "none" /\ box = DefaultAABB
       \/ boxOp = "expand"
    /\ Cardinality(expPts) + Cardinality(expBoxes) < MaxExpands

ExpandPoint(p) ==
    /\ Expanding
    /\ boxOp' = "expand"
    /\ boxArg' = p
    /\ boxPrev' = box
    /\ box' = expandPoint(box, p)
    /\ boxRes' = expandPoint(box, p)
    /\ expPts' = expPts \cup {p}
    /\ UNCHANGED <<hsv, expBoxes>>
    /\ UNCHANGED <<rasterVars, colorVars, windowVars>>

ExpandAABB(r) ==
    /\ Expanding
    /\ boxOp' = "expand"
    /\ boxArg' = r
    /\ boxPrev' = box
    /\ box' = expandAABB(box, r)
    /\ boxRes' = expandAABB(box, r)
    /\ expBoxes' = expBoxes \cup {r}
    /\ UNCHANGED <<hsv, expPts>>
    /\ UNCHANGED <<rasterVars, colorVars, windowVars>>

NextAABB ==
    \/ \E r \in ArgRegions : Clamp(r)
    \/ \E r \in ArgRegions : Clamped(r)
    \/ IsValid
    \/ \E r \in ArgRegions : Intersect(r)
    \/ \E r \in ArgRegions : Overlap(r)
    \/ \E p \in ProbePoints : Contains(p)
    \/ \E p \in ProbePoints : ClosestPoint(p)
    \/ \E viewport \in Viewports : ConstructViewport(viewport)
    \/ \E p \in Points : ExpandPoint(p)
    \/ \E r \in ExpandRegions : ExpandAABB(r)

SpecAABB == InitAABB /\ [][NextAABB]_vars

(***************************************************************************)
(* The rasterizer specification.                                           *)
(***************************************************************************)
Init ==
    /\ RasterIdle
    /\ WindowIdle
    /\ ColorIdle
    /\ HsvIdle
    /\ BoxIdle

\* The destination image is as constructed or as cleared: one color all over.
Cleared == \A i \in DOMAIN dst : dst[i] = dst[0]

\* The caller is between two calls: call, prev and writes describe the call
\* that was made last, until the caller goes on.
Idle == ~crashed /\ call.op = "none"

\* The caller goes on after a call.
Return ==
    /\ ~crashed
    /\ call.op # "none"
    /\ call' = NoCall
    /\ prev' = dst
    /\ writes' = <<>>
    /\ UNCHANGED <<colorTarget, clipRect, dst, crashed>>
    /\ UNCHANGED <<earlier, colorVars, mathVars, windowVars>>

\* state.colorTarget = t.
SetColorTarget(t) ==
    /\ Idle
    /\ colorTarget # t
    /\ colorTarget' = t
    /\ call' = [NoCall EXCEPT !.op = "setColorTarget"]
    /\ prev' = dst
    /\ writes' = <<>>
    /\ UNCHANGED <<clipRect, dst, crashed>>
    /\ UNCHANGED <<earlier, colorVars, mathVars, windowVars>>

\* state.clipRect = r.
SetClipRect(r) ==
    /\ Idle
    /\ Cleared
    /\ clipRect # r
    /\ clipRect' = r
    /\ call' = [NoCall EXCEPT !.op = "setClipRect"]
    /\ prev' = dst
    /\ writes' = <<>>
    /\ UNCHANGED <<colorTarget, dst, crashed>>
    /\ UNCHANGED <<earlier, colorVars, mathVars, windowVars>>

\* rasterizer.clear( color ).
Clear(color) ==
    /\ Idle
    /\ dst' = clear(State(colorTarget, clipRect), dst, color)
    /\ call' = [NoCall EXCEPT !.op = "clear", !.color = color]
    /\ prev' = dst'
    /\ writes' = <<>>
    /\ UNCHANGED <<colorTarget, clipRect, crashed>>
    /\ UNCHANGED <<earlier, colorVars, mathVars, windowVars>>

\* rasterizer.drawSprite( sprite, _x, _y ).  The model draws, and assigns the
\* clip rectangle, on a cleared image: the image is cleared between two
\* draws that change it, as a frame of the samples' main loops is.  Where the
\* call accesses memory outside the buffer, both outcomes are taken.
DrawSprite(sprite, _x, _y) ==
    /\ Idle
    /\ Cleared
    /\ \E go \in {drawSprite(State(colorTarget, clipRect), dst, sprite, _x, _y, FALSE)} :
         \E m \in (IF \/ \E k \in DOMAIN go.writes : go.writes[k].i \notin DOMAIN dst
                      \/ \E k \in DOMAIN go.reads :
                            go.reads[k].s \notin DOMAIN data(sprite.image)
                   THEN {go, drawSprite(State(colorTarget, clipRect), dst, sprite, _x, _y, TRUE)}
                   ELSE {go}) :
             /\ dst' = m.buf
             /\ writes' = m.writes
             /\ crashed' = m.trapped
    /\ call' = [op |-> "drawSprite", sprite |-> sprite, x |-> _x, y |-> _y,
                color |-> DefaultColor]
    /\ prev' = dst
    /\ UNCHANGED <<colorTarget, clipRect>>
    /\ UNCHANGED <<earlier, colorVars, mathVars, windowVars>>

Next ==
    \/ Return
    \/ \E t \in {"null", "image"} : SetColorTarget(t)
    \/ \E r \in ClipRects : SetClipRect(r)
    \/ \E color \in {DefaultColor, Green} : Clear(color)
    \/ \E sprite \in Sprites \cup {NullSprite},
          _x \in (1 - MaxSize)..DstW, _y \in (1 - MaxSize)..DstH :
             DrawSprite(sprite, _x, _y)

Spec == Init /\ [][Next]_vars

(***************************************************************************)
(* What the last call was given, in the words of the claims.               *)
(***************************************************************************)
Drew == call.op = "drawSprite"

\* A draw that has a color target and a source image.
DrewConfigured == Drew /\ colorTarget # "null" /\ call.sprite.image # "null"

\* The sprite's footprint [x, x + size.x - 1] x [y, y + size.y - 1].
FootL == call.x
FootR == call.x + call.sprite.size.x - 1
FootT == call.y
FootB == call.y + call.sprite.size.y - 1

\* The configured clip rectangle, inclusive.
ClipL == clipRect.left
ClipR == clipRect.left + clipRect.width - 1
ClipT == clipRect.top
ClipB == clipRect.top + clipRect.height - 1

InBuffer(x, y) == 0 <= x /\ x < DstW /\ 0 <= y /\ y < DstH

InClip(x, y) == ClipL <= x /\ x <= ClipR /\ ClipT <= y /\ y <= ClipB

InFoot(x, y) == FootL <= x /\ x <= FootR /\ FootT <= y /\ y <= FootB

\* Footprint, destination bounds and clip rectangle intersected.
Largest(S) == CHOOSE n \in S : \A k \in S : k <= n
Smallest(S) == CHOOSE n \in S : \A k \in S : n <= k
VisL == Largest({0, ClipL, FootL})
VisR == Smallest({DstW - 1, ClipR, FootR})
VisT == Largest({0, ClipT, FootT})
VisB == Smallest({DstH - 1, ClipB, FootB})

Visible == { <<x, y>> \in (0..(DstW - 1)) \X (0..(DstH - 1)) :
               InClip(x, y) /\ InFoot(x, y) }

\* The pixels the call accessed, and the buffer cells they are.
WrittenXY == { <<writes[k].x, writes[k].y>> : k \in DOMAIN writes }

FootOutsideBuffer == FootR < 0 \/ FootL >= DstW \/ FootB < 0 \/ FootT >= DstH

FootOutsideClip == FootR < ClipL \/ FootL > ClipR \/ FootB < ClipT \/ FootT > ClipB

(***************************************************************************)
(* Claims about the rasterizer, checked under Spec.                        *)
(***************************************************************************)
\* C1: a drawSprite whose footprint lies entirely outside the destination
\* buffer, or entirely outside the configured clip rectangle (a clip
\* rectangle that misses the buffer included), leaves every pixel of the
\* destination buffer unchanged.
C1_OffscreenSkip ==
    (Drew /\ (FootOutsideBuffer \/ FootOutsideClip)) => dst = prev

C3_PartialClip ==
    (DrewConfigured /\ VisL < VisR /\ VisT < VisB) =>
        /\ ~crashed
        /\ WrittenXY = Visible
        /\ Len(writes) = Cardinality(Visible)
        /\ \A k \in DOMAIN writes : writes[k].i = writes[k].y * DstW + writes[k].x
        /\ \A x \in 0..(DstW - 1), y \in 0..(DstH - 1) :
              <<x, y>> \notin Visible => dst[y * DstW + x] = prev[y * DstW + x]

\* C3 happens: the largest sprite drawn two pixels before the far corner of
\* an unclipped image changes the last two rows and columns only.
C3_Witness ==
    /\ DrewConfigured
    /\ clipRect = DefaultClip
    /\ call.sprite.size = Vec2(MaxSize, MaxSize)
    /\ call.x = DstW - 2 /\ call.y = DstH - 2
    /\ WrittenXY = ((DstW - 2)..(DstW - 1)) \X ((DstH - 2)..(DstH - 1))
    /\ \A x \in 0..(DstW - 1), y \in 0..(DstH - 1) :
          dst[y * DstW + x] # prev[y * DstW + x] <=> (x >= DstW - 2 /\ y >= DstH - 2)

\* C4: drawSprite reads no source pixel, writes no destination pixel and
\* raises no error when there is no color target or the sprite has no
\* image, and clear changes nothing when there is no color target.
C4_NoOpWithoutTarget ==
    [][ /\ (call'.op = "drawSprite" /\ (colorTarget = "null" \/ call'.sprite.image = "null"))
            => (dst' = dst /\ writes' = <<>> /\ ~crashed')
        /\ (call'.op = "clear" /\ colorTarget = "null")
            => (dst' = dst /\ writes' = <<>> /\ ~crashed') ]_vars

\* C4 happens: a sprite that lies inside the image is drawn with no color
\* target set.
C4_Witness ==
    /\ Drew
    /\ colorTarget = "null"
    /\ call.sprite.image # "null"
    /\ call.sprite.size = Vec2(MaxSize, MaxSize)
    /\ call.x = 0 /\ call.y = 0
    /\ writes = <<>>

\* C5: clear( color ) with a color target sets every pixel of the whole
\* destination buffer to color, whatever the clip rectangle, and leaves the
\* color target and the clip rectangle as they were.
C5_ClearWholeBuffer ==
    [][ (call'.op = "clear" /\ colorTarget # "null") =>
            /\ \A i \in DOMAIN dst' : dst'[i] = call'.color
            /\ DOMAIN dst' = DOMAIN dst
            /\ colorTarget' = colorTarget
            /\ clipRect' = clipRect ]_vars

\* C5 happens: the image is cleared to green under a clip rectangle of one
\* pixel.
C5_Witness ==
    /\ call.op = "clear"
    /\ call.color = Green
    /\ colorTarget # "null"
    /\ clipRect = Rect(1, 1, 1, 1)
    /\ \A i \in DOMAIN dst : dst[i] = Green

Channels == {"r", "g", "b", "a"}

\* C7: every channel of c1 + c2 is min(a + b, 255) and every channel of
\* c1 - c2 is max(a - b, 0): addition and subtraction saturate and never
\* wrap around modulo 256, and += and -= give what + and - give.
C7_Saturation ==
    /\ colOp \in {"+", "+="} =>
          \A ch \in Channels :
             colRes[ch] = (IF colA[ch] + colB[ch] > 255 THEN 255
                           ELSE colA[ch] + colB[ch])
    /\ colOp \in {"-", "-="} =>
          \A ch \in Channels :
             colRes[ch] = (IF colA[ch] < colB[ch] THEN 0 ELSE colA[ch] - colB[ch])
    /\ colOp \in {"+=", "-="} => colThis = colRes
    /\ colOp \in {"+", "-"} => colThis = colA

\* C7 happens: a += in which one channel's sum passes 255 and is capped, and
\* another's does not.
C7_Witness ==
    /\ colOp = "+="
    /\ \E ch \in Channels : colA[ch] + colB[ch] > 255 /\ colRes[ch] = 255
    /\ \E ch \in Channels : colA[ch] > 0 /\ colB[ch] > 0 /\ colA[ch] + colB[ch] < 255

\* C8: every channel of c1 * c2 is the integer quotient of a * b by 255,
\* truncated, and lies in 0..255; so c * Color(255, 255, 255, 255) is c.
C8_Multiply ==
    colOp \in {"*", "*="} =>
        /\ \A ch \in Channels :
              /\ colRes[ch] \in 0..255
              /\ 255 * colRes[ch] <= colA[ch] * colB[ch]
              /\ colA[ch] * colB[ch] < 255 * (colRes[ch] + 1)
        /\ colB = White => colRes = colA
        /\ colOp = "*=" => colThis = colRes

\* C8 happens: a color with four different channels, none 0 or 255, is
\* multiplied by white and comes back.
C8_Witness ==
    /\ colOp = "*"
    /\ colB = White
    /\ Cardinality({colA[ch] : ch \in Channels}) = 4
    /\ \A ch \in Channels : colA[ch] \notin {0, 255}
    /\ colRes = colA

\* C9: the packed and the channel view of a Color agree.  Color(r, g, b, a)
\* has rgba = r + 2^8 g + 2^16 b + 2^24 a; Color(v) and fromHex(v) have the
\* bytes of v as channels, red lowest and alpha highest; bytes to integer to
\* bytes and integer to bytes to integer both come back.
C9_PackedConsistent ==
    /\ colOp = "Color(r,g,b,a)" =>
          /\ colRgba = W32OfBytes(colRes.r, colRes.g, colRes.b, colRes.a)
          /\ colRgba = colWord
          /\ ColorFromRGBA(colRgba) = colRes
    /\ colOp \in {"Color(rgba)", "fromHex"} =>
          /\ colRes.r = ByteOf(colWord, 0)
          /\ colRes.g = ByteOf(colWord, 1)
          /\ colRes.b = ByteOf(colWord, 2)
          /\ colRes.a = ByteOf(colWord, 3)
          /\ colRgba = colWord

\* C9 happens: Color(v) of a word whose four bytes differ.
C9_Witness ==
    /\ colOp = "Color(rgba)"
    /\ Cardinality({ByteOf(colWord, k) : k \in 0..3}) = 4
    /\ colRes.r = ByteOf(colWord, 0)
    /\ colRes.a = ByteOf(colWord, 3)

\* The first difference of two sequences of the same length decides:
\* -1 less, 0 equal, 1 greater.
RECURSIVE LexCompare(_, _)
LexCompare(s, t) ==
    IF s = <<>> THEN 0
    ELSE IF Head(s) < Head(t) THEN -1
    ELSE IF Head(s) > Head(t) THEN 1
    ELSE LexCompare(Tail(s), Tail(t))

\* C10: operator<=> is the lexicographic order on (red, green, blue,
\* alpha), and it agrees with operator==: a <=> b is equal exactly when
\* a == b, that is exactly when the two 32-bit values are equal.
C10_Ordering ==
    colOp = "<=>" =>
        /\ colOrd = LexCompare(<<colA.r, colA.g, colA.b, colA.a>>,
                               <<colB.r, colB.g, colB.b, colB.a>>)
        /\ (colOrd = 0) <=> colEq
        /\ colEq <=> (W32OfBytes(colA.r, colA.g, colA.b, colA.a)
                        = W32OfBytes(colB.r, colB.g, colB.b, colB.a))
        /\ ColorCompare(colB, colA) = 0 - colOrd

\* C10 happens: red decides against alpha, where the packed words compare
\* the other way round.
C10_Witness ==
    /\ colOp = "<=>"
    /\ colA.r < colB.r
    /\ colA.a > colB.a
    /\ colOrd = -1
    /\ ~colEq

(***************************************************************************)
(* Claims about fromHSV, checked under SpecHSV.                            *)
(***************************************************************************)
\* Red, yellow, green, cyan, blue, magenta.
SixHues ==
    << MakeColor(255, 0, 0, 255), MakeColor(255, 255, 0, 255),
       MakeColor(0, 255, 0, 255), MakeColor(0, 255, 255, 255),
       MakeColor(0, 0, 255, 255), MakeColor(255, 0, 255, 255) >>

\* The hue in [0, 360) that H stands for.
Representative(H) == H % Degrees(360)

\* The color of a hue h in [0, 360) at full saturation and value, computed
\* exactly: the rising or falling channel is 255 t / 60 truncated, where t
\* is 60 less the distance in degrees from the hue to the nearest odd
\* multiple of 60.
WheelColor(h) ==
    LET n == h \div Degrees(60)
        t == Degrees(60) - Abs((h % Degrees(120)) - Degrees(60))
        x == (255 * t) \div Degrees(60)
    IN  CASE n = 0 -> MakeColor(255, x, 0, 255)
          [] n = 1 -> MakeColor(x, 255, 0, 255)
          [] n = 2 -> MakeColor(0, 255, x, 255)
          [] n = 3 -> MakeColor(0, x, 255, 255)
          [] n = 4 -> MakeColor(x, 0, 255, 255)
          [] n = 5 -> MakeColor(255, 0, x, 255)

\* C11: fromHSV(H, 1, 1) is red, yellow, green, cyan, blue, magenta for the
\* hues that stand for 0, 60, 120, 180, 240, 300, always with alpha 255,
\* and a hue H + 360k or a negative hue gives the color of its
\* representative in [0, 360).
C11_HueWheel ==
    (colOp = "fromHSV" /\ hsv.S = UnitScale /\ hsv.V = UnitScale) =>
        /\ colRes.a = 255
        /\ \A k \in 0..5 :
              Representative(hsv.H) = Degrees(60 * k) => colRes = SixHues[k + 1]
        /\ colRes = WheelColor(Representative(hsv.H))

(***************************************************************************)
(* Claims about AABB, checked under SpecAABB.                              *)
(***************************************************************************)
\* b.min <= a.min and a.max <= b.max on both axes.
Within(a, b) ==
    /\ b.min.x <= a.min.x /\ b.min.y <= a.min.y
    /\ a.max.x <= b.max.x /\ a.max.y <= b.max.y

\* The component-wise max of the two mins and min of the two maxes.
MaxOfMinsMinOfMaxes(a, b) ==
    [min |-> Vec2(Largest({a.min.x, b.min.x}), Largest({a.min.y, b.min.y})),
     max |-> Vec2(Smallest({a.max.x, b.max.x}), Smallest({a.max.y, b.max.y}))]

\* C12: clamping a region against itself, with clamp and with clamped,
\* yields the region, and clamping a region A against a region B with
\* B.min <= A.min and A.max <= B.max on both axes yields A unchanged.
C12_ClampIdempotent ==
    /\ (boxOp = "clamp" /\ (boxArg = boxPrev \/ Within(boxPrev, boxArg))) =>
          box = boxPrev
    /\ (boxOp = "clamped" /\ (boxArg = box \/ Within(box, boxArg))) =>
          boxRes = box

\* C13: clamped( r ) returns, without modifying the receiver, the region
\* clamp( r ) leaves in the receiver: min the component-wise max of the
\* mins, max the component-wise min of the maxes, for disjoint regions too,
\* where the result has min > max on some axis.
C13_ClampedIsClamp ==
    /\ boxOp = "clamp" => box = MaxOfMinsMinOfMaxes(boxPrev, boxArg)
    /\ boxOp = "clamped" =>
          /\ box = boxPrev
          /\ boxRes = MaxOfMinsMinOfMaxes(box, boxArg)

\* C14 as stated: isValid() is true exactly when every component of min is
\* <= the component of max; a region built from a single point is valid
\* and the default-constructed one is not.
C14_IsValidClosed ==
    boxOp = "isValid" =>
        /\ boxRes = (box.min.x <= box.max.x /\ box.min.y <= box.max.y)
        /\ box = DefaultAABB => boxRes = FALSE

\* C14 as amended: isValid() is true exactly when every component of min is
\* strictly less than the component of max; a region with min = max on an
\* axis, a single point among them, is not valid, and neither is the
\* default-constructed one.
C14_IsValidStrict ==
    boxOp = "isValid" =>
        /\ boxRes = (box.min.x < box.max.x /\ box.min.y < box.max.y)
        /\ (box.min.x = box.max.x \/ box.min.y = box.max.y) => boxRes = FALSE
        /\ box = DefaultAABB => boxRes = FALSE
        /\ box = boxPrev

\* C14 happens: isValid() on a region that is a single point.
C14_Witness ==
    /\ boxOp = "isValid"
    /\ box.min = box.max
    /\ boxRes = FALSE

\* The closed-interval test: min <= r.max and max >= r.min on both axes.
ClosedIntervalsMeet(a, b) ==
    /\ a.min.x <= b.max.x /\ a.max.x >= b.min.x
    /\ a.min.y <= b.max.y /\ a.max.y >= b.min.y

\* C15: intersect( r ) is the closed-interval test, overlap( r ) returns a
\* vector exactly when intersect( r ) is true and an empty optional
\* otherwise, and a returned vector is non-zero on at most one axis.
C15_OverlapIffIntersect ==
    /\ boxOp = "intersect" => boxRes = ClosedIntervalsMeet(box, boxArg)
    /\ boxOp = "overlap" =>
          /\ (Len(boxRes) = 1) <=> ClosedIntervalsMeet(box, boxArg)
          /\ Len(boxRes) = 1 => (boxRes[1].x = 0 \/ boxRes[1].y = 0)

\* The penetration depth of two regions on the x and on the y axis.
PenetrationX(a, b) == Smallest({a.max.x, b.max.x}) - Largest({a.min.x, b.min.x})
PenetrationY(a, b) == Smallest({a.max.y, b.max.y}) - Largest({a.min.y, b.min.y})

\* C16: when two regions overlap with equal penetration depth on the x and
\* y axes, overlap( r ) returns the separation in the x component and 0 in
\* the y component.
C16_TiePrefersX ==
    (/\ boxOp = "overlap"
     /\ Len(boxRes) = 1
     /\ PenetrationX(box, boxArg) = PenetrationY(box, boxArg)) =>
        (boxRes[1].x # 0 /\ boxRes[1].y = 0)

\* C17: from the default-constructed region, the first expand( p ) yields
\* min = max = p, and after any expand( point ) and expand( region ) calls
\* min and max are the component-wise minimum and maximum of everything
\* the region was expanded with, so that contains() accepts every point it
\* was expanded with.
C17_ExpandExact ==
    boxOp = "expand" =>
        LET lows  == expPts \cup {r.min : r \in expBoxes}
            highs == expPts \cup {r.max : r \in expBoxes}
        IN  /\ box.min = Vec2(Smallest({p.x : p \in lows}), Smallest({p.y : p \in lows}))
            /\ box.max = Vec2(Largest({p.x : p \in highs}), Largest({p.y : p \in highs}))
            /\ \A p \in expPts : contains(box, p)
            /\ (expBoxes = {} /\ Cardinality(expPts) = 1) =>
                  \A p \in expPts : box.min = p /\ box.max = p

\* C17 happens: two points were expanded with, and neither corner of the
\* region is one of them.
C17_Witness ==
    /\ boxOp = "expand"
    /\ Cardinality(expPts) = 2
    /\ expBoxes = {}
    /\ box.min \notin expPts
    /\ box.max \notin expPts
    /\ \A p \in expPts : contains(box, p)

\* C18: the region of a viewport (x, y, width, height) has min = (x, y)
\* and max = (x + width - 1, y + height - 1): contains() accepts exactly
\* the pixels x..x+width-1 by y..y+height-1 and rejects x+width and
\* y+height.
C18_ViewportInclusive ==
    boxOp = "AABB(viewport)" =>
        /\ box.min = Vec2(boxArg.x, boxArg.y)
        /\ box.max = Vec2(boxArg.x + boxArg.width - 1, boxArg.y + boxArg.height - 1)
        /\ \A p \in ProbePoints :
              contains(box, p) <=>
                 /\ boxArg.x <= p.x /\ p.x <= boxArg.x + boxArg.width - 1
                 /\ boxArg.y <= p.y /\ p.y <= boxArg.y + boxArg.height - 1
        /\ ~contains(box, Vec2(boxArg.x + boxArg.width, boxArg.y))
        /\ ~contains(box, Vec2(boxArg.x, boxArg.y + boxArg.height))

\* C18 happens: a viewport two pixels wide or more, whose last pixel is
\* accepted and the one after it rejected.
C18_Witness ==
    /\ boxOp = "AABB(viewport)"
    /\ boxArg.width >= 2 /\ boxArg.height >= 2
    /\ contains(box, Vec2(boxArg.x + boxArg.width - 1, boxArg.y + boxArg.height - 1))
    /\ ~contains(box, Vec2(boxArg.x + boxArg.width, boxArg.y + boxArg.height - 1))

\* C19: for a region with min <= max, closestPoint( p ) is p when
\* contains( p ) holds, otherwise a point contains() accepts, each
\* coordinate clamped into [min, max]; and closestPoint of the result is
\* the result.
C19_ClosestPoint ==
    (boxOp = "closestPoint" /\ box.min.x <= box.max.x /\ box.min.y <= box.max.y) =>
        /\ contains(box, boxArg) => boxRes = boxArg
        /\ contains(box, boxRes)
        /\ boxRes.x = (IF boxArg.x < box.min.x THEN box.min.x
                       ELSE IF boxArg.x > box.max.x THEN box.max.x ELSE boxArg.x)
        /\ boxRes.y = (IF boxArg.y < box.min.y THEN box.min.y
                       ELSE IF boxArg.y > box.max.y THEN box.max.y ELSE boxArg.y)
        /\ closestPoint(box, boxRes) = boxRes

\* C19 happens: a point left of and below a region with interior is moved
\* onto its corner.
C19_Witness ==
    /\ boxOp = "closestPoint"
    /\ box.min.x < box.max.x /\ box.min.y < box.max.y
    /\ boxArg.x < box.min.x /\ boxArg.y > box.max.y
    /\ boxRes = Vec2(box.min.x, box.max.y)
    /\ ~contains(box, boxArg)

(***************************************************************************)
(* A further claim about the rasterizer, checked under Spec.               *)
(***************************************************************************)
\* C20: for every destination pixel (px, py) that drawSprite( sprite, x, y )
\* writes, the source pixel sampled is (uv.x + (px - x), uv.y + (py - y))
\* of the sprite's image, uv being the sprite's own UV offset, whichever
\* side the footprint was clipped on; the sprites of the model are opaque
\* and untinted, so the pixel written is that source pixel.
C20_Sampling ==
    DrewConfigured =>
        \A k \in DOMAIN writes :
            LET u == call.sprite.uv.x + (writes[k].x - call.x)
                v == call.sprite.uv.y + (writes[k].y - call.y)
            IN  /\ writes[k].u = u
                /\ writes[k].v = v
                /\ (/\ writes[k].i \in DOMAIN dst
                    /\ \A j \in DOMAIN writes : j > k => writes[j].i # writes[k].i) =>
                       dst[writes[k].i] = srcData[v * SrcW + u]

\* C20 happens: a sprite drawn at negative x and y is clipped on the left
\* and at the top, and its first visible pixel is sampled that far into
\* the sprite.
C20_Witness ==
    /\ DrewConfigured
    /\ call.x < 0 /\ call.y < 0
    /\ writes # <<>>
    /\ writes[1].x = 0 /\ writes[1].y = 0
    /\ writes[1].u = call.sprite.uv.x - call.x
    /\ writes[1].v = call.sprite.uv.y - call.y
    /\ dst[0] = srcData[writes[1].v * SrcW + writes[1].u]
    /\ dst[0] # prev[0]

(***************************************************************************)
(* The frame specification: the rasterizer draws up to two sprites on an   *)
(* image, with its state assigned before and between the two calls.  The  *)
(* sprites are tinted and translucent; one views the wide source image,    *)
(* the others have a size of zero or less on an axis.                      *)
(***************************************************************************)
Tint == MakeColor(255, 128, 64, 128)

\* Sprites that lie inside their source image: the source image but for its
\* first column, and the whole of the wide one.
FrameSprites ==
    { [image |-> "src", uv |-> Vec2(1, 0), size |-> Vec2(MaxSize - 1, MaxSize),
       color |-> Tint, blendMode |-> "AlphaBlend"],
      [image |-> "wide", uv |-> Vec2(0, 0), size |-> Vec2(WideW, WideH),
       color |-> Tint, blendMode |-> "AlphaBlend"] }

\* Sprites of no width, of negative height, and of neither width nor height.
DegenerateSprites ==
    { [image |-> "src", uv |-> Vec2(1, 1), size |-> sz,
       color |-> Tint, blendMode |-> "AlphaBlend"] :
         sz \in {Vec2(0, MaxSize - 1), Vec2(MaxSize - 1, -1), Vec2(-1, 0)} }

\* The positions drawn at: before the image's first column or row, at it,
\* and at the image's last column.
FramePositions == {-1, 0, DstW - 1} \X {-1, 0}

\* The clip rectangles of the frame model: the default one, one inside the
\* image, and one column far to the right of the image.
FrameClips ==
    { DefaultClip,
      Rect(1, 0, MaxClipSize, MaxClipSize),
      Rect(2 * DstW - 1, 0, 1, WideH) }

\* The last call, a drawSprite, as the record kept of it in earlier.
LastDraw ==
    [op |-> "drawSprite", clipRect |-> clipRect, colorTarget |-> colorTarget,
     sprite |-> call.sprite, x |-> call.x, y |-> call.y, writes |-> writes]

\* Two sprites were drawn since the image was cleared.
TwoDrawn == earlier # NoDraw /\ call.op = "drawSprite"

\* rasterizer.clear( color ): a new frame.
FrameClear(color) ==
    /\ ~crashed
    /\ dst' = clear(State(colorTarget, clipRect), dst, color)
    /\ call' = [NoCall EXCEPT !.op = "clear", !.color = color]
    /\ prev' = dst'
    /\ writes' = <<>>
    /\ earlier' = NoDraw
    /\ UNCHANGED <<colorTarget, clipRect, crashed>>
    /\ UNCHANGED <<colorVars, mathVars, windowVars>>

\* state.colorTarget = t, before or between the two draws.
FrameSetColorTarget(t) ==
    /\ ~crashed
    /\ ~TwoDrawn
    /\ colorTarget # t
    /\ colorTarget' = t
    /\ call' = [NoCall EXCEPT !.op = "setColorTarget"]
    /\ prev' = dst
    /\ writes' = <<>>
    /\ earlier' = IF call.op = "drawSprite" THEN LastDraw ELSE earlier
    /\ UNCHANGED <<clipRect, dst, crashed>>
    /\ UNCHANGED <<colorVars, mathVars, windowVars>>

\* state.clipRect = r, before or between the two draws.
FrameSetClipRect(r) ==
    /\ ~crashed
    /\ ~TwoDrawn
    /\ clipRect # r
    /\ clipRect' = r
    /\ call' = [NoCall EXCEPT !.op = "setClipRect"]
    /\ prev' = dst
    /\ writes' = <<>>
    /\ earlier' = IF call.op = "drawSprite" THEN LastDraw ELSE earlier
    /\ UNCHANGED <<colorTarget, dst, crashed>>
    /\ UNCHANGED <<colorVars, mathVars, windowVars>>

\* FrameDraw clipping by the clip rectangle of the draw before, where there
\* was one: a clip region computed once and kept.
FrameDrawStaleClip(sprite, _x, _y) ==
    /\ ~crashed
    /\ ~TwoDrawn
    /\ earlier # NoDraw \/ call.op = "drawSprite" \/ Cleared
    /\ \E go \in {drawSprite(State(colorTarget,
                                  IF earlier # NoDraw THEN earlier.clipRect ELSE clipRect),
                            dst, sprite, _x, _y, FALSE)} :
             /\ dst' = go.buf
             /\ writes' = go.writes
             /\ crashed' = go.trapped
    /\ call' = [op |-> "drawSprite", sprite |-> sprite, x |-> _x, y |-> _y,
                color |-> DefaultColor]
    /\ prev' = dst
    /\ earlier' = IF call.op = "drawSprite" THEN LastDraw ELSE earlier
    /\ UNCHANGED <<colorTarget, clipRect>>
    /\ UNCHANGED <<colorVars, mathVars, windowVars>>

\* rasterizer.drawSprite( sprite, _x, _y ), the first or the second draw of
\* the frame; the first is made on a cleared image.  Where the call accesses
\* memory outside a buffer, both outcomes are taken.
FrameDraw(sprite, _x, _y) ==
    /\ ~crashed
    /\ ~TwoDrawn
    /\ earlier # NoDraw \/ call.op = "drawSprite" \/ Cleared
    /\ \E go \in {drawSprite(State(colorTarget, clipRect), dst, sprite, _x, _y, FALSE)} :
         \E m \in (IF \/ \E k \in DOMAIN go.writes : go.writes[k].i \notin DOMAIN dst
                      \/ \E k \in DOMAIN go.reads :
                            go.reads[k].s \notin DOMAIN data(sprite.image)
                   THEN {go, drawSprite(State(colorTarget, clipRect), dst, sprite, _x, _y, TRUE)}
                   ELSE {go}) :
             /\ dst' = m.buf
             /\ writes' = m.writes
             /\ crashed' = m.trapped
    /\ call' = [op |-> "drawSprite", sprite |-> sprite, x |-> _x, y |-> _y,
                color |-> DefaultColor]
    /\ prev' = dst
    /\ earlier' = IF call.op = "drawSprite" THEN LastDraw ELSE earlier
    /\ UNCHANGED <<colorTarget, clipRect>>
    /\ UNCHANGED <<colorVars, mathVars, windowVars>>

NextFrame ==
    \/ FrameClear(Green)
    \/ \E t \in {"null", "image"} : FrameSetColorTarget(t)
    \/ \E r \in FrameClips : FrameSetClipRect(r)
    \/ \E sprite \in FrameSprites \cup DegenerateSprites, p \in FramePositions :
          FrameDraw(sprite, p[1], p[2])

SpecFrame == Init /\ [][NextFrame]_vars

(***************************************************************************)
(* Claims about drawSprite, checked under SpecFrame.                       *)
(***************************************************************************)
\* The source pixel an access sampled, tinted with the sprite's color.
TintedSample(acc) ==
    ColorTimes(data(call.sprite.image)[acc.v * getWidth(call.sprite.image) + acc.u],
               call.sprite.color)

\* C21: every destination pixel one drawSprite call writes holds, after the
\* call, Blend(S * tint, D), S the source pixel sampled for it, tint the
\* sprite's color and D the pixel before the call; the call blends each
\* pixel it covers exactly once, rows top to bottom and each row left to
\* right.
C21_BlendOnce ==
    Drew =>
        /\ \A k \in DOMAIN writes :
              writes[k].i \in DOMAIN dst =>
                  dst[writes[k].i] =
                      Blend(call.sprite.blendMode, TintedSample(writes[k]),
                            prev[writes[k].i])
        /\ \A j, k \in DOMAIN writes : j < k => writes[j].i # writes[k].i
        /\ \A k \in 1..(Len(writes) - 1) :
              \/ writes[k].y < writes[k + 1].y
              \/ writes[k].y = writes[k + 1].y /\ writes[k].x < writes[k + 1].x

\* The last call is a drawSprite made after an earlier one, with the clip
\* rectangle or the color target assigned in between.
DrewAfterChange ==
    /\ Drew
    /\ earlier # NoDraw
    /\ earlier.clipRect # clipRect \/ earlier.colorTarget # colorTarget

LastCall ==
    drawSprite(State(colorTarget, clipRect), prev, call.sprite, call.x, call.y,
               crashed)

Degenerate == call.sprite.size.x <= 0 \/ call.sprite.size.y <= 0

\* C24: a drawSprite of a sprite whose size is zero or negative on an axis
\* leaves at the off-screen test: it reads no source pixel and writes no
\* destination pixel.
C24_DegenerateExit ==
    (Drew /\ Degenerate) =>
        /\ DrewConfigured =>
              Offscreen(ClipBounds(clipRect, call.sprite.size, call.x, call.y))
        /\ LastCall.reads = <<>>
        /\ writes = <<>>
        /\ dst = prev
        /\ ~crashed

\* C24 happens: the sprite of no width is drawn at the image's origin with
\* a color target and the default clip rectangle.
C24_Witness ==
    /\ DrewConfigured
    /\ call.sprite.size = Vec2(0, MaxSize - 1)
    /\ call.x = 0 /\ call.y = 0
    /\ clipRect = DefaultClip

\* The sprite's UV rectangle lies inside its source image.
UVInsideSource ==
    /\ call.sprite.size.x >= 1 /\ call.sprite.size.y >= 1
    /\ call.sprite.uv.x >= 0 /\ call.sprite.uv.y >= 0
    /\ call.sprite.uv.x + call.sprite.size.x <= getWidth(call.sprite.image)
    /\ (call.sprite.uv.y + call.sprite.size.y) * getWidth(call.sprite.image)
          <= Cardinality(DOMAIN data(call.sprite.image))

\* C25: when the sprite's UV rectangle lies inside its source image, every
\* source coordinate (u, v) a drawSprite reads lies inside the UV rectangle,
\* and the index v * width + u inside the source buffer, at every position
\* and under every clip rectangle.
C25_ReadsInsideUV ==
    (DrewConfigured /\ UVInsideSource) =>
        \A k \in DOMAIN LastCall.reads :
            LET rd == LastCall.reads[k]
            IN  /\ call.sprite.uv.x <= rd.u
                /\ rd.u <= call.sprite.uv.x + call.sprite.size.x - 1
                /\ call.sprite.uv.y <= rd.v
                /\ rd.v <= call.sprite.uv.y + call.sprite.size.y - 1
                /\ rd.s = rd.v * getWidth(call.sprite.image) + rd.u
                /\ rd.s \in DOMAIN data(call.sprite.image)

\* C25 happens: the wide sprite drawn one column before the image, clipped
\* to the rectangle inside the image, reads source pixels.
C25_Witness ==
    /\ DrewConfigured
    /\ UVInsideSource
    /\ call.sprite.image = "wide"
    /\ call.x = -1 /\ call.y = 0
    /\ clipRect = Rect(1, 0, MaxClipSize, MaxClipSize)
    /\ LastCall.reads # <<>>

(***************************************************************************)
(* graphics/src/Window.cpp.  A Window object holds three handles, 0 for    *)
(* nullptr: the SDL window, the SDL renderer and the ImGui context, which  *)
(* create() allocates together (the model gives the three the same         *)
(* number), and the flag m_Close.  The world of an operation is the        *)
(* objects, what SDL and ImGui have allocated, the event watches SDL       *)
(* holds, and the ImGui frame calls the operation has made so far.         *)
(* SDL_AddEventWatch and the ImGui set-up calls are taken to succeed.      *)
(***************************************************************************)
\* The SDL windows (with renderer and context) created in one behaviour.
MaxWindows == 2

World ==
    [win |-> win, sdlWindows |-> sdlWindows, sdlRenderers |-> sdlRenderers,
     imguiContexts |-> imguiContexts, frameOpen |-> frameOpen,
     watches |-> watches, nextId |-> nextId,
     frames |-> <<>>, threw |-> FALSE, fault |-> FALSE]

\* bool Window::isValid() const: m_Window != nullptr && !m_Close.
WindowIsValid(w, self) == w.win[self].m_Window # 0 /\ ~w.win[self].m_Close

\* Window::operator bool() const.
WindowBool(w, self) == WindowIsValid(w, self)

\* SDL_GetWindowID: 0 for a pointer that is no SDL window.
SDL_GetWindowID(w, window) == IF window \in w.sdlWindows THEN window ELSE 0

\* Window::beginFrame: ImGui's NewFrame calls on the window's context.
\* Each frame call is recorded with whether a frame was open on the context.
\* Without a context the calls are undefined.
beginFrame(w, self) ==
    LET ctx == w.win[self].m_ImGuiContext
    IN  IF ctx \notin w.imguiContexts THEN [w EXCEPT !.fault = TRUE]
        ELSE [w EXCEPT !.frameOpen = @ \cup {ctx},
                       !.frames = Append(@, [call |-> "NewFrame", ctx |-> ctx,
                                             open |-> ctx \in w.frameOpen])]

\* Window::destroy: one event watch of this object is removed, the context,
\* the renderer and the window are destroyed where not null, and the
\* pointers are reset.  m_Close is left as it is.
destroy(w, self) ==
    LET o == w.win[self]
    IN  [w EXCEPT !.watches[self] = IF @ > 0 THEN @ - 1 ELSE 0,
                  !.imguiContexts = @ \ {o.m_ImGuiContext},
                  !.frameOpen = @ \ {o.m_ImGuiContext},
                  !.sdlRenderers = @ \ {o.m_Renderer},
                  !.sdlWindows = @ \ {o.m_Window},
                  !.win[self].m_Window = 0,
                  !.win[self].m_Renderer = 0,
                  !.win[self].m_ImGuiContext = 0]

\* Window::create: an existing window is destroyed first; ok is whether
\* SDL_CreateWindowAndRenderer succeeds, and create throws if not.
create(w, self, ok) ==
    LET w1 == IF w.win[self].m_Window # 0 THEN destroy(w, self) ELSE w
        id == w1.nextId
        w2 == [w1 EXCEPT !.nextId = id + 1,
                         !.sdlWindows = @ \cup {id},
                         !.sdlRenderers = @ \cup {id},
                         !.win[self].m_Window = id,
                         !.win[self].m_Renderer = id,
                         !.watches[self] = @ + 1]
        w3 == [w2 EXCEPT !.imguiContexts = @ \cup {id},
                         !.win[self].m_ImGuiContext = id]
    IN  IF ~ok THEN [w1 EXCEPT !.threw = TRUE] ELSE beginFrame(w3, self)

\* present that begins a new frame before it looks at m_Close.
presentBeginsFirst(w, self) ==
    LET o   == w.win[self]
        ctx == o.m_ImGuiContext
        w1  == [w EXCEPT !.frames = Append(@, [call |-> "Render", ctx |-> ctx,
                                               open |-> ctx \in w.frameOpen]),
                         !.frameOpen = @ \ {ctx}]
    IN  IF o.m_Renderer = 0 THEN w
        ELSE IF ctx \notin w.imguiContexts THEN [w EXCEPT !.fault = TRUE]
        ELSE IF o.m_Close THEN destroy(beginFrame(w1, self), self)
        ELSE beginFrame(w1, self)

\* Window::present: nothing without a renderer; else ImGui::Render on the
\* window's context and SDL_RenderPresent, then destroy() if m_Close and
\* beginFrame() if not.
present(w, self) ==
    LET o   == w.win[self]
        ctx == o.m_ImGuiContext
        w1  == [w EXCEPT !.frames = Append(@, [call |-> "Render", ctx |-> ctx,
                                               open |-> ctx \in w.frameOpen]),
                         !.frameOpen = @ \ {ctx}]
    IN  IF o.m_Renderer = 0 THEN w
        ELSE IF ctx \notin w.imguiContexts THEN [w EXCEPT !.fault = TRUE]
        ELSE IF o.m_Close THEN destroy(w1, self)
        ELSE beginFrame(w1, self)

\* The callback is undefined where self is no live object or has no ImGui
\* context for ImGui_ImplSDL3_ProcessEvent.
WatchUndefined(w, self) ==
    ~w.win[self].alive \/ w.win[self].m_ImGuiContext \notin w.imguiContexts

\* Window::eventWatch( userdata = self, event ) for a
\* SDL_EVENT_WINDOW_CLOSE_REQUESTED of the SDL window windowID.  Where the
\* callback is undefined it stops the program (trap) or goes on reading the
\* object's members.
eventWatch(w, self, windowID, trap) ==
    IF WatchUndefined(w, self) /\ trap THEN [w EXCEPT !.fault = TRUE]
    ELSE IF windowID = SDL_GetWindowID(w, w.win[self].m_Window)
    THEN [w EXCEPT !.win[self].m_Close = TRUE]
    ELSE w

\* SDL calls every event watch it holds with the event.
RECURSIVE Dispatch(_, _, _, _)
Dispatch(w, S, windowID, trap) ==
    IF S = {} \/ w.fault THEN w
    ELSE LET self == CHOOSE o \in S : TRUE
         IN  Dispatch(IF w.watches[self] > 0
                      THEN eventWatch(w, self, windowID, trap) ELSE w,
                      S \ {self}, windowID, trap)

\* Window( Window&& window ): the three pointers are taken from window and
\* nulled there; m_Close has its default, false.
MoveConstructed(w, self, from) ==
    [w EXCEPT !.win[self] = [alive |-> TRUE,
                             m_Window |-> w.win[from].m_Window,
                             m_Renderer |-> w.win[from].m_Renderer,
                             m_ImGuiContext |-> w.win[from].m_ImGuiContext,
                             m_Close |-> FALSE],
              !.win[from].m_Window = 0,
              !.win[from].m_Renderer = 0,
              !.win[from].m_ImGuiContext = 0]

\* Window::operator=( Window&& window ): nothing on self-assignment; else
\* the three pointers are overwritten with window's and nulled there.
MoveAssigned(w, self, from) ==
    IF self = from THEN w
    ELSE [w EXCEPT !.win[self].m_Window = w.win[from].m_Window,
                   !.win[self].m_Renderer = w.win[from].m_Renderer,
                   !.win[self].m_ImGuiContext = w.win[from].m_ImGuiContext,
                   !.win[from].m_Window = 0,
                   !.win[from].m_Renderer = 0,
                   !.win[from].m_ImGuiContext = 0]

(***************************************************************************)
(* The window specification: two Window objects, constructed, moved,       *)
(* created, presented, destroyed and destructed by the program, and the    *)
(* close requests SDL delivers for the SDL windows that exist.             *)
(***************************************************************************)
\* The operation op( self, arg ) leaves the world w.
Commit(w, op, self, arg) ==
    /\ win' = w.win
    /\ sdlWindows' = w.sdlWindows
    /\ sdlRenderers' = w.sdlRenderers
    /\ imguiContexts' = w.imguiContexts
    /\ frameOpen' = w.frameOpen
    /\ watches' = w.watches
    /\ nextId' = w.nextId
    /\ winOp' = [op |-> IF w.threw THEN "createThrew" ELSE op, self |-> self,
                 arg |-> arg, frames |-> w.frames]
    /\ winFault' = w.fault
    /\ UNCHANGED <<rasterVars, colorVars, mathVars>>

\* Window w; (the defaulted constructor).
Construct(self) ==
    /\ ~winFault
    /\ ~win[self].alive
    /\ Commit([World EXCEPT !.win[self] = [NoWindow EXCEPT !.alive = TRUE]],
              "construct", self, 0)

\* Window w( std::move( from ) );
MoveConstruct(self, from) ==
    /\ ~winFault
    /\ ~win[self].alive /\ win[from].alive
    /\ Commit(MoveConstructed(World, self, from), "moveConstruct", self, from)

\* self = std::move( from );
MoveAssign(self, from) ==
    /\ ~winFault
    /\ win[self].alive /\ win[from].alive
    /\ Commit(MoveAssigned(World, self, from), "moveAssign", self, from)

\* self.create( ... ), which returns or throws.
Create(self, ok) ==
    /\ ~winFault
    /\ win[self].alive
    /\ nextId <= MaxWindows
    /\ Commit(create(World, self, ok), "create", self, 0)

\* self.destroy().
Destroy(self) ==
    /\ ~winFault
    /\ win[self].alive
    /\ Commit(destroy(World, self), "destroy", self, 0)

\* self.present().
Present(self) ==
    /\ ~winFault
    /\ win[self].alive
    /\ Commit(present(World, self), "present", self, 0)

\* Window::~Window: destroy(), and the object's lifetime ends.
Destruct(self) ==
    /\ ~winFault
    /\ win[self].alive
    /\ Commit([destroy(World, self) EXCEPT !.win[self].alive = FALSE],
              "destruct", self, 0)

\* The user asks to close the SDL window windowID: SDL delivers
\* SDL_EVENT_WINDOW_CLOSE_REQUESTED to the event watches.  Where a callback
\* is undefined, both outcomes are taken.
CloseRequested(windowID) ==
    /\ ~winFault
    /\ windowID \in sdlWindows
    /\ \E trap \in (IF \E o \in Objects : watches[o] > 0 /\ WatchUndefined(World, o)
                    THEN BOOLEAN ELSE {FALSE}) :
          Commit(Dispatch(World, Objects, windowID, trap),
                 "closeRequest", "a", windowID)

NextWindow ==
    \/ \E self \in Objects : Construct(self)
    \/ \E self \in Objects, from \in Objects : MoveConstruct(self, from)
    \/ \E self \in Objects, from \in Objects : MoveAssign(self, from)
    \/ \E self \in Objects, ok \in BOOLEAN : Create(self, ok)
    \/ \E self \in Objects : Destroy(self)
    \/ \E self \in Objects : Present(self)
    \/ \E self \in Objects : Destruct(self)
    \/ \E windowID \in 1..MaxWindows : CloseRequested(windowID)

SpecWindow == Init /\ [][NextWindow]_vars

(***************************************************************************)
(* Claims about Window, checked under SpecWindow.  A step is the operation *)
(* that winOp names after it.                                              *)
(***************************************************************************)
\* The object o, of the objects w, holds no SDL window, renderer or ImGui
\* context.
HoldsNothing(w, o) ==
    w[o].m_Window = 0 /\ w[o].m_Renderer = 0 /\ w[o].m_ImGuiContext = 0

\* What the object points to is allocated.
StillAllocated(o) ==
    /\ win[o].m_Window \in sdlWindows
    /\ win[o].m_Renderer \in sdlRenderers
    /\ win[o].m_ImGuiContext \in imguiContexts

\* C23: a close-request event never destroys the window inside the event
\* callback: the callback only sets m_Close, so that after the event the
\* Window that holds the SDL window reports isValid() == false while the
\* SDL window, the renderer and the ImGui context are still allocated; the
\* next present() destroys them and begins no new frame.
C23_DeferredClose ==
    /\ (winOp.op = "closeRequest" /\ ~winFault) =>
          /\ winOp.arg \in sdlWindows
          /\ \A o \in Objects :
                (win[o].alive /\ win[o].m_Window = winOp.arg) =>
                    /\ win[o].m_Close
                    /\ ~WindowIsValid(World, o)
                    /\ StillAllocated(o)
    /\ (winOp.op = "present" /\ win[winOp.self].m_Close) =>
          /\ HoldsNothing(win, winOp.self)
          /\ \A k \in DOMAIN winOp.frames : winOp.frames[k].call # "NewFrame"

\* C26: after a move construction or a move assignment the moved-from
\* Window holds no window, renderer or ImGui context, and a close request
\* for an SDL window makes the Window that holds it report isValid() ==
\* false, so that its next present() destroys it.
C26_MovedWindowCloses ==
    /\ (winOp.op \in {"moveConstruct", "moveAssign"} /\ winOp.self # winOp.arg) =>
          HoldsNothing(win, winOp.arg)
    /\ (winOp.op = "closeRequest" /\ ~winFault) =>
          \A o \in Objects :
              (win[o].alive /\ win[o].m_Window = winOp.arg) =>
                  ~WindowIsValid(World, o)

\* C27: whenever create() returns normally the Window is valid: isValid()
\* and operator bool are true, whatever happened to the object before.
C27_CreateValid ==
    winOp.op = "create" =>
        WindowIsValid(World, winOp.self) /\ WindowBool(World, winOp.self)

\* A frame call of ImGui: NewFrame or Render on a context, made with a frame
\* open on it or not.
FrameCall(name, ctx, open) == [call |-> name, ctx |-> ctx, open |-> open]

=============================================================================
